---- MODULE Spec2Model ----
(***************************************************************************)
(* Model of GFETSimulatorAmbipolar (src/model.py): the ambipolar GFET      *)
(* device model, its sweep engine and its CSV export / custom-sweep import. *)
(*                                                                         *)
(* Numbers.  The program computes in binary floating point (Python float / *)
(* numpy float64).  The model keeps the rounding of every operation but in *)
(* a reduced format: a value is an integer count of the smallest positive  *)
(* number of the format (the real value is x / One), with Prec significant *)
(* bits, round-to-nearest-even and gradual underflow to zero.  The format  *)
(* has no upper limit: the inputs are bounded so that nothing overflows,   *)
(* and overflow to inf/nan is outside the model.                           *)
(***************************************************************************)
EXTENDS Integers, Sequences, FiniteSets, TLC

\* ctor     the arguments the object was constructed with (never changes)
\* self     the object's fields
\* files    the file system: path -> rows of cells of text
\* call     the last call made on the object: the operation and its arguments
\* outcome  how that call ended: "returned" or the exception it raised
\* assigned, Vgs_values, Vds_values, results   the locals of that call
\* ret      what that call returned
VARIABLES ctor, self, files, call, outcome, assigned, Vgs_values, Vds_values,
          results, ret

vars == <<ctor, self, files, call, outcome, assigned, Vgs_values, Vds_values,
          results, ret>>

(***************************************************************************)
(* Bounds of the model.                                                    *)
(***************************************************************************)
\* significant bits of the reduced floating-point format
Prec == 3
\* the real number 1.0 is 2^Scale units
Scale == 4
\* largest num_points a sweep is called with
MaxPoints == 4
\* largest num_points of a sweep whose table is exported afterwards
MaxCsvPoints == 2
\* largest table (records) the caller exports
MaxExport == 4

One == 2 ^ Scale
Half == One \div 2
Two == 2 * One
Ten == 10 * One

(***************************************************************************)
(* Floating-point arithmetic: every operation is the exact result rounded  *)
(* to the nearest value of the format, ties to the even significand.       *)
(***************************************************************************)
Abs(x) == IF x < 0 THEN -x ELSE x

Sgn(x) == IF x < 0 THEN -1 ELSE IF x > 0 THEN 1 ELSE 0

\* the unit in the last place of a magnitude whose integer part is q
RECURSIVE UlpOf(_)
UlpOf(q) == IF q < 2 ^ Prec THEN 1 ELSE 2 * UlpOf(q \div 2)

\* the magnitude a / d (a >= 0, d > 0) rounded to the format
RoundMag(a, d) ==
    LET u == UlpOf(a \div d)
        m == a \div (d * u)
        rem == a - m * d * u
        up == \/ 2 * rem > d * u
              \/ 2 * rem = d * u /\ m % 2 = 1
    IN  (IF up THEN m + 1 ELSE m) * u

\* the rational n / d (d # 0) rounded to the format
Round(n, d) == Sgn(n) * Sgn(d) * RoundMag(Abs(n), Abs(d))

IsFloat(x) == Round(x, 1) = x

FAdd(x, y) == Round(x + y, 1)

FSub(x, y) == Round(x - y, 1)

FMul(x, y) == Round(x * y, One)

FDiv(x, y) == Round(x * One, y)

\* floor of the square root of a natural number
RECURSIVE Isqrt(_)
Isqrt(a) ==
    IF a < 2 THEN a
    ELSE LET s == 2 * Isqrt(a \div 4)
         IN  IF (s + 1) * (s + 1) <= a THEN s + 1 ELSE s

\* np.sqrt: the correctly rounded square root of x >= 0
FSqrt(x) ==
    LET a == x * One
        r == Isqrt(a)
        u == UlpOf(r)
        m == r \div u
        \* a against the square of the midpoint (2m+1)u/2 of the two neighbours
        lhs == 4 * a
        rhs == (2 * m + 1) * (2 * m + 1) * u * u
        up == lhs > rhs \/ (lhs = rhs /\ m % 2 = 1)
    IN  (IF up THEN m + 1 ELSE m) * u

\* the float of a small integer count (np.arange, num - 1)
FInt(i) == Round(i * One, 1)

(***************************************************************************)
(* The device model: GFETSimulatorAmbipolar.__init__ and its two pure      *)
(* functions.                                                              *)
(***************************************************************************)
\* a slip in __init__: the oxide capacitance multiplied by tox, not divided
init_cox_times_tox(a) ==
    [L |-> a.channel_length,
     W |-> a.channel_width,
     tox |-> a.tox,
     mu |-> a.mobility,
     n0 |-> a.intrinsic_carrier_density,
     epsilon_0 |-> a.epsilon_0,
     kappa |-> a.dielectric_const,
     Cox |-> FMul(FMul(a.dielectric_const, a.epsilon_0), a.tox),
     q |-> a.q,
     Vdirac |-> a.v_dirac]

\* epsilon_0 = 8.854e-12 and q = 1.602e-19 are literals of __init__; the
\* reduced format cannot hold their magnitudes, so the constructor's record
\* of arguments carries the stand-ins for the two literals too.
__init__(a) ==
    [L |-> a.channel_length,
     W |-> a.channel_width,
     tox |-> a.tox,
     mu |-> a.mobility,
     n0 |-> a.intrinsic_carrier_density,
     epsilon_0 |-> a.epsilon_0,
     kappa |-> a.dielectric_const,
     Cox |-> FDiv(FMul(a.dielectric_const, a.epsilon_0), a.tox),
     q |-> a.q,
     Vdirac |-> a.v_dirac]

\* a slip in carrier_density: the Dirac voltage added, not subtracted
carrier_density_plus(s, Vgs) ==
    LET gate == FMul(FDiv(s.Cox, s.q), FAdd(Vgs, s.Vdirac))
    IN  FSqrt(FAdd(FMul(s.n0, s.n0), FMul(gate, gate)))

carrier_density(s, Vgs) ==
    LET gate == FMul(FDiv(s.Cox, s.q), FSub(Vgs, s.Vdirac))
    IN  FSqrt(FAdd(FMul(s.n0, s.n0), FMul(gate, gate)))

\* a slip in drain_current: the magnitude of Vds in place of Vds
drain_current_abs(s, Vgs, Vds) ==
    LET n == carrier_density(s, Vgs)
    IN  FMul(FMul(FMul(FMul(s.mu, FDiv(s.W, s.L)), s.q), n), Abs(Vds))

drain_current(s, Vgs, Vds) ==
    LET n == carrier_density(s, Vgs)
    IN  FMul(FMul(FMul(FMul(s.mu, FDiv(s.W, s.L)), s.q), n), Vds)

(***************************************************************************)
(* Point generation: np.linspace, np.logspace and the three strategies of  *)
(* sweep.  A generator returns [raised, vals]; raised is "none" or the     *)
(* name of the exception.                                                  *)
(***************************************************************************)
\* y[i] of np.linspace before the end point is fixed (i = 0 .. num-1)
LinspaceAt(start, stop, num, i) ==
    LET div == num - 1
        delta == FSub(stop, start)
        step == FDiv(delta, FInt(div))
        y == IF div > 0
             THEN IF step = 0
                  THEN FMul(FDiv(FInt(i), FInt(div)), delta)
                  ELSE FMul(FInt(i), step)
             ELSE FMul(FInt(i), delta)
    IN  FAdd(y, start)

\* a slip: np.linspace called with endpoint=False
linspace_open(start, stop, num) ==
    IF num < 0
    THEN [raised |-> "ValueError", vals |-> <<>>]
    ELSE [raised |-> "none",
          vals |-> [k \in 1..num |->
                       FAdd(FMul(FInt(k - 1), FDiv(FSub(stop, start), FInt(num))), start)]]

\* np.linspace(start, stop, num), endpoint=True
linspace(start, stop, num) ==
    IF num < 0
    THEN [raised |-> "ValueError", vals |-> <<>>]
    ELSE [raised |-> "none",
          vals |-> [k \in 1..num |->
                       IF num > 1 /\ k = num THEN stop
                       ELSE LinspaceAt(start, stop, num, k - 1)]]

\* np.log10 on the two arguments the model calls it with
log10(x) == CASE x = One -> 0
              [] x = Ten -> One

\* 1000 * 10 ** (k / 32) for k = 0 .. 32, to the nearest integer
Pow10Milli ==
    <<1000, 1075, 1155, 1241, 1334, 1433, 1540, 1655, 1778, 1911, 2054,
      2207, 2371, 2548, 2738, 2943, 3162, 3398, 3652, 3924, 4217, 4532,
      4870, 5233, 5623, 6043, 6494, 6978, 7499, 8058, 8660, 9306, 10000>>

\* 10 ** y for 0 <= y <= 1 (y a multiple of 1/32), rounded to the format
pow10(y) == Round(Pow10Milli[(y * 32) \div One + 1] * One, 1000)

\* np.logspace(a, b, num) = 10 ** np.linspace(a, b, num)
logspace(a, b, num) ==
    LET y == linspace(a, b, num)
    IN  [raised |-> y.raised,
         vals |-> [k \in 1..Len(y.vals) |-> pow10(y.vals[k])]]

\* a slip: each half-segment num_points long
dual_linear_full(range, num_points) ==
    LET mid == FDiv(FAdd(range[1], range[2]), Two)
        first == linspace(range[1], mid, num_points)
        second == linspace(mid, range[2], num_points)
    IN  IF first.raised # "none" THEN first
        ELSE IF second.raised # "none" THEN second
        ELSE [raised |-> "none", vals |-> first.vals \o second.vals]

\* a slip: one linear segment of the same length, the split at the midpoint
\* forgotten
dual_linear_single(range, num_points) ==
    linspace(range[1], range[2], 2 * (num_points \div 2))

\* np.concatenate of the two half-segments of a dual-linear sweep
dual_linear(range, num_points) ==
    LET mid == FDiv(FAdd(range[1], range[2]), Two)
        first == linspace(range[1], mid, num_points \div 2)
        second == linspace(mid, range[2], num_points \div 2)
    IN  IF first.raised # "none" THEN first
        ELSE IF second.raised # "none" THEN second
        ELSE [raised |-> "none", vals |-> first.vals \o second.vals]

RecognisedTypes == {"linear", "log", "dual-linear"}

\* a slip: an unknown sweep_type falls back to the linear strategy
generate_default_linear(sweep_type, range, num_points) ==
    IF sweep_type = "log"
    THEN logspace(log10(range[1]), log10(range[2]), num_points)
    ELSE IF sweep_type = "dual-linear"
    THEN dual_linear(range, num_points)
    ELSE linspace(range[1], range[2], num_points)

\* lines 39-55 for one of the two bias variables
generate(sweep_type, range, num_points) ==
    IF sweep_type = "linear"
    THEN linspace(range[1], range[2], num_points)
    ELSE IF sweep_type = "log"
    THEN logspace(log10(range[1]), log10(range[2]), num_points)
    ELSE IF sweep_type = "dual-linear"
    THEN dual_linear(range, num_points)
    ELSE [raised |-> "ValueError", vals |-> <<>>]

(***************************************************************************)
(* Tabulation: the nested loops of sweep (lines 57-61) and those of        *)
(* load_custom_sweep (lines 70-75).                                        *)
(***************************************************************************)
RECURSIVE sweep_inner(_, _, _, _, _)
sweep_inner(s, Vgs, Vds_vals, j, res) ==
    IF j > Len(Vds_vals) THEN res
    ELSE LET Vds == Vds_vals[j]
             Ids == drain_current(s, Vgs, Vds)
         IN  sweep_inner(s, Vgs, Vds_vals, j + 1, Append(res, <<Vgs, Vds, Ids>>))

\* the outer loop; one pass of the inner loop appends its records to res
RECURSIVE sweep_outer(_, _, _, _, _)
sweep_outer(s, Vgs_vals, Vds_vals, i, res) ==
    IF i > Len(Vgs_vals) THEN res
    ELSE sweep_outer(s, Vgs_vals, Vds_vals, i + 1,
                     res \o sweep_inner(s, Vgs_vals[i], Vds_vals, 1, <<>>))

\* a slip: the loops nested the other way round (Vds outer, Vgs inner)
sweep_results_swapped(s, Vgs_vals, Vds_vals) ==
    [k \in 1..(Len(Vgs_vals) * Len(Vds_vals)) |->
        LET Vgs == Vgs_vals[((k - 1) % Len(Vgs_vals)) + 1]
            Vds == Vds_vals[((k - 1) \div Len(Vgs_vals)) + 1]
        IN  <<Vgs, Vds, drain_current(s, Vgs, Vds)>>]

sweep_results(s, Vgs_vals, Vds_vals) == sweep_outer(s, Vgs_vals, Vds_vals, 1, <<>>)

RECURSIVE custom_inner(_, _, _, _, _)
custom_inner(s, Vgs, Vds_vals, j, res) ==
    IF j > Len(Vds_vals) THEN res
    ELSE LET Vds == Vds_vals[j]
             Ids == drain_current(s, Vgs, Vds)
         IN  custom_inner(s, Vgs, Vds_vals, j + 1, Append(res, <<Vgs, Vds, Ids>>))

\* the outer loop; one pass of the inner loop appends its records to res
RECURSIVE custom_outer(_, _, _, _, _)
custom_outer(s, Vgs_vals, Vds_vals, i, res) ==
    IF i > Len(Vgs_vals) THEN res
    ELSE custom_outer(s, Vgs_vals, Vds_vals, i + 1,
                      res \o custom_inner(s, Vgs_vals[i], Vds_vals, 1, <<>>))

\* a slip: the arguments of drain_current in the wrong order
custom_results_args_swapped(s, Vgs_vals, Vds_vals) ==
    [k \in 1..(Len(Vgs_vals) * Len(Vds_vals)) |->
        LET Vgs == Vgs_vals[((k - 1) \div Len(Vds_vals)) + 1]
            Vds == Vds_vals[((k - 1) % Len(Vds_vals)) + 1]
        IN  <<Vgs, Vds, drain_current(s, Vds, Vgs)>>]

custom_results(s, Vgs_vals, Vds_vals) == custom_outer(s, Vgs_vals, Vds_vals, 1, <<>>)

(***************************************************************************)
(* CSV text.  A file is a sequence of rows, a row a sequence of cells, a   *)
(* cell a sequence of characters.  DataFrame.to_csv writes a float as its  *)
(* repr, pd.read_csv parses the text back into a float.                    *)
(***************************************************************************)
DigitChar(d) == <<"0", "1", "2", "3", "4", "5", "6", "7", "8", "9">>[d + 1]

DigitVal(c) == CHOOSE d \in 0..9 : DigitChar(d) = c

\* the decimal digits of a natural number
RECURSIVE Digits(_)
Digits(n) == IF n < 10 THEN <<DigitChar(n)>>
             ELSE Append(Digits(n \div 10), DigitChar(n % 10))

\* f written with exactly k digits
RECURSIVE FixedDigits(_, _)
FixedDigits(f, k) == IF k = 0 THEN <<>>
                     ELSE Append(FixedDigits(f \div 10, k - 1), DigitChar(f % 10))

RECURSIVE StripZeros(_)
StripZeros(ds) == IF Len(ds) > 1 /\ ds[Len(ds)] = "0"
                  THEN StripZeros(SubSeq(ds, 1, Len(ds) - 1))
                  ELSE ds

\* repr(x): sign, integer part, point, fraction (x / One = I + F / 10^Scale)
float_repr(x) ==
    LET a == Abs(x)
        frac == (a % One) * 5 ^ Scale
    IN  (IF x < 0 THEN <<"-">> ELSE <<>>)
        \o Digits(a \div One) \o <<".">> \o StripZeros(FixedDigits(frac, Scale))

\* the natural number a digit string denotes
RECURSIVE DigitsValue(_)
DigitsValue(ds) == IF ds = <<>> THEN 0
                   ELSE 10 * DigitsValue(SubSeq(ds, 1, Len(ds) - 1)) + DigitVal(ds[Len(ds)])

\* the float a cell of text denotes
parse_float(cell) ==
    LET neg == cell[1] = "-"
        body == IF neg THEN Tail(cell) ELSE cell
        dot == CHOOSE i \in 1..Len(body) : body[i] = "."
        ip == DigitsValue(SubSeq(body, 1, dot - 1))
        fd == SubSeq(body, dot + 1, Len(body))
        k == Len(fd)
        num == ip * 10 ^ k + DigitsValue(fd)
    IN  Round((IF neg THEN -1 ELSE 1) * num * One, 10 ^ k)

Header == << <<"V", "g", "s">>, <<"V", "d", "s">>, <<"I", "d", "s">> >>

\* a slip: index=False forgotten, so every row starts with its index
to_csv_with_index(df) ==
    << <<<<>>>> \o Header >>
    \o [k \in 1..Len(df) |->
           <<float_repr(FInt(k - 1))>> \o [c \in 1..3 |-> float_repr(df[k][c])]]

\* df.to_csv(filename, index=False): the header, then one row per record
to_csv(df) ==
    <<Header>> \o [k \in 1..Len(df) |-> [c \in 1..3 |-> float_repr(df[k][c])]]

RECURSIVE flatten(_)
flatten(rows) == IF rows = <<>> THEN <<>> ELSE Head(rows) \o flatten(Tail(rows))

\* pd.read_csv(path).values.flatten(): the first row is the header, every
\* other cell is parsed, the values are laid out row by row
read_csv_flat(file) ==
    flatten([k \in 1..(Len(file) - 1) |->
                [c \in 1..Len(file[k + 1]) |-> parse_float(file[k + 1][c])]])

\* a one-column file with a header, as load_custom_sweep expects
column_file(name, vals) ==
    << <<name>> >> \o [k \in 1..Len(vals) |-> <<float_repr(vals[k])>>]

(***************************************************************************)
(* The inputs the model calls the program with.                            *)
(***************************************************************************)
\* kappa = 3.9, the default dielectric_const
Kappa == Round(39 * One, 10)

CtorArgs(Ls, Ws, toxs, mus, n0s, qs, vds) ==
    [channel_length : Ls, channel_width : Ws, tox : toxs, mobility : mus,
     intrinsic_carrier_density : n0s, epsilon_0 : {Half}, dielectric_const : {Kappa},
     q : qs, v_dirac : vds]

Devices == CtorArgs({One}, {Two}, {Two}, {Half}, {0, One}, {Half}, {Half})

\* the columns of the two files the custom sweeps read: Vgs, Vds
Columns == {<< <<0, Half, One>>, <<One, -One>> >>, << <<-One>>, <<>> >>}

CsvDevices == CtorArgs({One}, {Two}, {Two}, {Half}, {One}, {Half}, {Half})

CsvColumns == {<< <<0, Half, One>>, <<-One>> >>}

\* devices for the two pure functions: n0 zero, tiny (its square underflows)
\* and 1.0; a Dirac point at zero, at 1.0 and at the largest odd significand
PhysDevices ==
    CtorArgs({One}, {One}, {Half}, {Half, One}, {0, 1, One}, {Half \div 2, One},
             {0, One, 2 ^ Prec - 1})

\* every value of the format between -2.0 and 2.0
PhysVolts == {x \in (-Two)..Two : IsFloat(x)}

PhysGates == {-One, 0, Half, One, 2 ^ Prec - 1}

PhysDrains == {-One, -1, 0, 1, One}

\* the offsets d of the mirrored gate voltages Vdirac + d, Vdirac - d
Offsets == {1, 2, Half, One}

SweepTypes == RecognisedTypes \cup {"bogus"}

VgsRanges(sweep_type) ==
    IF sweep_type = "log" THEN {<<One, Ten>>} ELSE {<<0, One>>, <<One, -One>>}

VdsRanges(sweep_type) ==
    IF sweep_type = "log" THEN {<<One, Ten>>, <<Ten, One>>}
    ELSE {<<0, One>>, <<Half, Half>>}

Volts == {-One, Half}

Paths == {"vgs.csv", "vds.csv", "out.csv"}

NoLocals ==
    /\ assigned' = {}
    /\ Vgs_values' = <<>>
    /\ Vds_values' = <<>>
    /\ results' = <<>>

(***************************************************************************)
(* Construction.                                                           *)
(***************************************************************************)
InitWith(devices, columns) ==
    /\ ctor \in devices
    /\ self = __init__(ctor)
    /\ \E cols \in columns :
          files = [p \in {"vgs.csv", "vds.csv"} |->
                     IF p = "vgs.csv" THEN column_file(<<"V", "g", "s">>, cols[1])
                     ELSE column_file(<<"V", "d", "s">>, cols[2])]
    /\ call = [op |-> "__init__"]
    /\ outcome = "returned"
    /\ assigned = {}
    /\ Vgs_values = <<>>
    /\ Vds_values = <<>>
    /\ results = <<>>
    /\ ret = <<"None">>

Init == InitWith(Devices, Columns)

(***************************************************************************)
(* The operations.                                                         *)
(***************************************************************************)
CarrierDensity(volts) ==
    \E Vgs \in volts :
       /\ call' = [op |-> "carrier_density", Vgs |-> Vgs]
       /\ outcome' = "returned"
       /\ ret' = <<"float", carrier_density(self, Vgs)>>
       /\ NoLocals
       /\ UNCHANGED <<ctor, self, files>>

DrainCurrent(gates, drains) ==
    \E Vgs \in gates, Vds \in drains :
       /\ call' = [op |-> "drain_current", Vgs |-> Vgs, Vds |-> Vds]
       /\ outcome' = "returned"
       /\ ret' = <<"float", drain_current(self, Vgs, Vds)>>
       /\ NoLocals
       /\ UNCHANGED <<ctor, self, files>>

Sweep(types, N) ==
    \E sweep_type \in types, num_points \in (-1)..N :
    \E Vgs_range \in VgsRanges(sweep_type), Vds_range \in VdsRanges(sweep_type) :
       LET g == generate(sweep_type, Vgs_range, num_points)
           d == generate(sweep_type, Vds_range, num_points)
       IN  /\ call' = [op |-> "sweep", Vgs_range |-> Vgs_range, Vds_range |-> Vds_range,
                       sweep_type |-> sweep_type, num_points |-> num_points]
           /\ IF g.raised # "none"
              THEN /\ outcome' = g.raised
                   /\ NoLocals
                   /\ ret' = <<"None">>
              ELSE IF d.raised # "none"
              THEN /\ outcome' = d.raised
                   /\ assigned' = {"Vgs_values"}
                   /\ Vgs_values' = g.vals
                   /\ Vds_values' = <<>>
                   /\ results' = <<>>
                   /\ ret' = <<"None">>
              ELSE /\ outcome' = "returned"
                   /\ assigned' = {"Vgs_values", "Vds_values", "results", "df"}
                   /\ Vgs_values' = g.vals
                   /\ Vds_values' = d.vals
                   /\ results' = sweep_results(self, g.vals, d.vals)
                   /\ ret' = <<"DataFrame", results'>>
           /\ UNCHANGED <<ctor, self, files>>

LoadCustomSweep ==
    \E Vgs_csv_path \in Paths, Vds_csv_path \in Paths :
       /\ call' = [op |-> "load_custom_sweep", Vgs_csv_path |-> Vgs_csv_path,
                   Vds_csv_path |-> Vds_csv_path]
       /\ IF Vgs_csv_path \notin DOMAIN files
          THEN /\ outcome' = "FileNotFoundError"
               /\ NoLocals
               /\ ret' = <<"None">>
          ELSE IF Vds_csv_path \notin DOMAIN files
          THEN /\ outcome' = "FileNotFoundError"
               /\ assigned' = {"Vgs_values"}
               /\ Vgs_values' = read_csv_flat(files[Vgs_csv_path])
               /\ Vds_values' = <<>>
               /\ results' = <<>>
               /\ ret' = <<"None">>
          ELSE /\ outcome' = "returned"
               /\ assigned' = {"Vgs_values", "Vds_values", "results", "df"}
               /\ Vgs_values' = read_csv_flat(files[Vgs_csv_path])
               /\ Vds_values' = read_csv_flat(files[Vds_csv_path])
               /\ results' = custom_results(self, Vgs_values', Vds_values')
               /\ ret' = <<"DataFrame", results'>>
       /\ UNCHANGED <<ctor, self, files>>

\* the caller exports the table the last call returned
ExportToCsv ==
    /\ ret[1] = "DataFrame"
    /\ Len(ret[2]) <= MaxExport
    /\ call' = [op |-> "export_to_csv", df |-> ret[2], filename |-> "out.csv"]
    /\ files' = [p \in DOMAIN files \cup {"out.csv"} |->
                   IF p = "out.csv" THEN to_csv(ret[2]) ELSE files[p]]
    /\ outcome' = "returned"
    /\ NoLocals
    /\ ret' = <<"None">>
    /\ UNCHANGED <<ctor, self>>

Next ==
    \/ CarrierDensity(Volts)
    \/ DrainCurrent(Volts, Volts)
    \/ Sweep(SweepTypes, MaxPoints)
    \/ LoadCustomSweep

Spec == Init /\ [][Next]_vars

NextCsv == Sweep({"linear"}, MaxCsvPoints) \/ ExportToCsv \/ LoadCustomSweep

InitCsv == InitWith(CsvDevices, CsvColumns)

SpecCsv == InitCsv /\ [][NextCsv]_vars

\* the two pure functions alone, over many devices and voltages
InitPhys == InitWith(PhysDevices, CsvColumns)

NextPhys == CarrierDensity(PhysVolts) \/ DrainCurrent(PhysGates, PhysDrains)

SpecPhys == InitPhys /\ [][NextPhys]_vars

(***************************************************************************)
(* The claims.                                                             *)
(***************************************************************************)
RangeOf(seq) == {seq[i] : i \in 1..Len(seq)}

IsSweep == call.op = "sweep"

IsCustom == call.op = "load_custom_sweep"

Returned == outcome = "returned"

\* the midpoint (start + stop) / 2 as sweep computes it
MidOf(range) == FDiv(FAdd(range[1], range[2]), Two)

\* C1: a sweep of a recognised type, or a custom sweep, that returns a table
\* returns len(Vgs_values) * len(Vds_values) records, Vgs outer and Vds
\* inner: with m = len(Vds_values), record k (0-based) is
\* (Vgs_values[k div m], Vds_values[k mod m], drain_current of the two).
C1_TableInGenerationOrder ==
    ((IsSweep \/ IsCustom) /\ Returned) =>
        LET m == Len(Vds_values)
            table == ret[2]
        IN  /\ ret[1] = "DataFrame"
            /\ Len(table) = Len(Vgs_values) * m
            /\ \A k \in 0..(Len(table) - 1) :
                  LET Vgs == Vgs_values[(k \div m) + 1]
                      Vds == Vds_values[(k % m) + 1]
                  IN  table[k + 1] = <<Vgs, Vds, drain_current(self, Vgs, Vds)>>

\* C1's case: a sweep returned a table of at least 3 x 3 records whose Vgs
\* and Vds values differ, so that the nesting order shows
C1_Witness ==
    /\ IsSweep /\ Returned
    /\ call.sweep_type \in RecognisedTypes
    /\ Len(Vgs_values) >= 3 /\ Len(Vds_values) >= 3
    /\ Vgs_values # Vds_values
    /\ ret[2][2][1] = ret[2][1][1]
    /\ ret[2][2][2] # ret[2][1][2]

\* C2 as stated: a linear sweep with num_points = N >= 1 returns N*N records,
\* the first at the range starts and the last at the range stops.
C2_Original ==
    (IsSweep /\ Returned /\ call.sweep_type = "linear" /\ call.num_points >= 1) =>
        LET N == call.num_points
            table == ret[2]
        IN  /\ Len(table) = N * N
            /\ table[1][1] = call.Vgs_range[1] /\ table[1][2] = call.Vds_range[1]
            /\ table[N * N][1] = call.Vgs_range[2]
            /\ table[N * N][2] = call.Vds_range[2]

\* C2 amended: a linear sweep with N >= 1 returns N*N records and its first
\* record is at the range starts; its last record is at the range stops when
\* N >= 2, and at the range starts (the only record) when N = 1.
C2_LinearEndpoints ==
    (IsSweep /\ Returned /\ call.sweep_type = "linear" /\ call.num_points >= 1) =>
        LET N == call.num_points
            table == ret[2]
            last == table[N * N]
        IN  /\ Len(table) = N * N
            /\ table[1][1] = call.Vgs_range[1] /\ table[1][2] = call.Vds_range[1]
            /\ N >= 2 => last[1] = call.Vgs_range[2] /\ last[2] = call.Vds_range[2]
            /\ N = 1 => last[1] = call.Vgs_range[1] /\ last[2] = call.Vds_range[1]

\* C2's case: a linear sweep over a range with distinct ends, N >= 3
C2_Witness ==
    /\ IsSweep /\ Returned
    /\ call.sweep_type = "linear" /\ call.num_points >= 3
    /\ call.Vgs_range[1] # call.Vgs_range[2]
    /\ call.Vds_range[1] # call.Vds_range[2]
    /\ ret[2][Len(ret[2])][1] = call.Vgs_range[2]

\* C3: a sweep with an unrecognised sweep_type raises ValueError before any
\* local is assigned: no bias point is generated, no record is appended, no
\* table is returned, and the device's fields are those of construction.
C3_UnknownTypeRaisesFirst ==
    (IsSweep /\ call.sweep_type \notin RecognisedTypes) =>
        /\ outcome = "ValueError"
        /\ assigned = {}
        /\ Vgs_values = <<>> /\ Vds_values = <<>>
        /\ results = <<>>
        /\ ret = <<"None">>
        /\ self = __init__(ctor)

\* C3's case: sweep was called with sweep_type 'bogus' and num_points > 0
C3_Witness ==
    /\ IsSweep
    /\ call.sweep_type = "bogus"
    /\ call.num_points > 0
    /\ outcome = "ValueError"

\* C4: whatever calls were made, every field of the device is the one set at
\* construction, Cox is kappa * epsilon_0 / tox, and a sweep's table is the
\* one the same arguments give on the freshly constructed device.
C4_DeviceFieldsFrozen ==
    /\ self.L = ctor.channel_length
    /\ self.W = ctor.channel_width
    /\ self.tox = ctor.tox
    /\ self.mu = ctor.mobility
    /\ self.n0 = ctor.intrinsic_carrier_density
    /\ self.kappa = ctor.dielectric_const
    /\ self.Vdirac = ctor.v_dirac
    /\ self.epsilon_0 = ctor.epsilon_0
    /\ self.q = ctor.q
    /\ self.Cox = FDiv(FMul(self.kappa, self.epsilon_0), self.tox)
    /\ (IsSweep /\ Returned) =>
          ret[2] = sweep_results(__init__(ctor),
                                 generate(call.sweep_type, call.Vgs_range, call.num_points).vals,
                                 generate(call.sweep_type, call.Vds_range, call.num_points).vals)

\* C4's case: a sweep has run on the device and returned a non-empty table
C4_Witness ==
    /\ IsSweep /\ Returned
    /\ Len(ret[2]) > 0
    /\ self.Cox = FDiv(FMul(ctor.dielectric_const, ctor.epsilon_0), ctor.tox)

\* C5: a dual-linear sweep with num_points >= 0 returns; each of its value
\* sequences has 2 * (num_points // 2) values, the first half from the start
\* to the midpoint and the second from the midpoint to the stop, and the
\* table has (2 * (num_points // 2))^2 records.
C5_DualLinearLengths ==
    (IsSweep /\ call.sweep_type = "dual-linear" /\ call.num_points >= 0) =>
        LET h == call.num_points \div 2
            Halves(vals, range) ==
                /\ Len(vals) = 2 * h
                /\ h >= 1 => vals[1] = range[1] /\ vals[h + 1] = MidOf(range)
                /\ h >= 2 => vals[h] = MidOf(range) /\ vals[2 * h] = range[2]
        IN  /\ Returned
            /\ Halves(Vgs_values, call.Vgs_range)
            /\ Halves(Vds_values, call.Vds_range)
            /\ Len(Vgs_values) = (IF call.num_points % 2 = 0 THEN call.num_points
                                  ELSE call.num_points - 1)
            /\ Len(ret[2]) = (2 * h) * (2 * h)

\* C5's case: a dual-linear sweep with an odd num_points >= 3
C5_Witness ==
    /\ IsSweep /\ Returned
    /\ call.sweep_type = "dual-linear"
    /\ call.num_points % 2 = 1 /\ call.num_points >= 3
    /\ Len(Vgs_values) = call.num_points - 1

\* C6 as stated: a dual-linear sweep with num_points >= 2 generates, for Vgs
\* and for Vds, values that include the start, the midpoint and the stop.
C6_Original ==
    (IsSweep /\ Returned /\ call.sweep_type = "dual-linear" /\ call.num_points >= 2) =>
        /\ {call.Vgs_range[1], MidOf(call.Vgs_range), call.Vgs_range[2]}
              \subseteq RangeOf(Vgs_values)
        /\ {call.Vds_range[1], MidOf(call.Vds_range), call.Vds_range[2]}
              \subseteq RangeOf(Vds_values)

\* C6 amended: with num_points >= 4 (two points per half-segment) the values
\* include the start, the midpoint and the stop; with num_points 2 or 3 they
\* are exactly the start and the midpoint.
C6_DualLinearIncludes ==
    (IsSweep /\ Returned /\ call.sweep_type = "dual-linear" /\ call.num_points >= 2) =>
        LET Includes(vals, range) ==
                /\ call.num_points >= 4 =>
                      {range[1], MidOf(range), range[2]} \subseteq RangeOf(vals)
                /\ call.num_points < 4 => vals = <<range[1], MidOf(range)>>
        IN  /\ Includes(Vgs_values, call.Vgs_range)
            /\ Includes(Vds_values, call.Vds_range)

\* C6's case: the ranges (0, 1) with num_points >= 4: 0.0, 0.5 and 1.0 occur
C6_Witness ==
    /\ IsSweep /\ Returned
    /\ call.sweep_type = "dual-linear" /\ call.num_points >= 4
    /\ call.Vgs_range = <<0, One>> /\ call.Vds_range = <<0, One>>
    /\ {0, Half, One} \subseteq RangeOf(Vgs_values)

C8_CustomEqualsSweepTabulation ==
    (IsCustom /\ Returned) =>
        /\ ret[2] = sweep_results(self, Vgs_values, Vds_values)
        /\ \A t \in RecognisedTypes, n \in 0..MaxPoints :
           \A gr \in VgsRanges(t), dr \in VdsRanges(t) \cup VgsRanges(t) :
              LET g == generate(t, gr, n).vals
                  d == generate(t, dr, n).vals
              IN  (g = Vgs_values /\ d = Vds_values)
                  => ret[2] = sweep_results(self, g, d)

\* C8's case: a custom sweep read the very values a linear sweep generates
C8_Witness ==
    /\ IsCustom /\ Returned
    /\ Vgs_values = generate("linear", <<0, One>>, 3).vals
    /\ Vds_values = generate("linear", <<0, One>>, 3).vals
    /\ Len(ret[2]) = 9

\* the partial products of drain_current
DrainFactors(s, Vgs) ==
    LET n == carrier_density(s, Vgs)
        p1 == FMul(s.mu, FDiv(s.W, s.L))
        p2 == FMul(p1, s.q)
        p3 == FMul(p2, n)
    IN  [n |-> n, p1 |-> p1, p2 |-> p2, p3 |-> p3]

\* the exact product of x and y is at least the smallest positive float
\* (W / L is at least that when W * One >= L)
NoUnderflow(x, y) == Abs(x * y) >= One

\* C9 as stated: the sign of drain_current(Vgs, Vds) is the sign of Vds.
C9_Original ==
    (call.op = "drain_current") => Sgn(ret[2]) = Sgn(call.Vds)

\* C9 amended: Ids = 0 when Vds = 0, Ids >= 0 when Vds > 0, Ids <= 0 when
\* Vds < 0; Ids is non-zero with the sign of Vds when no partial product of
\* mu * (W/L) * q * n * Vds underflows; with n0 = 0 and Vgs = Vdirac the
\* carrier density is 0 and Ids = 0 whatever Vds is.
C9_SignOfDrainCurrent ==
    (call.op = "drain_current") =>
        LET Ids == ret[2]
            Vds == call.Vds
            f == DrainFactors(self, call.Vgs)
        IN  /\ Vds = 0 => Ids = 0
            /\ Vds > 0 => Ids >= 0
            /\ Vds < 0 => Ids <= 0
            /\ (/\ self.W * One >= self.L
                /\ NoUnderflow(self.mu, FDiv(self.W, self.L))
                /\ NoUnderflow(f.p1, self.q)
                /\ NoUnderflow(f.p2, f.n)
                /\ NoUnderflow(f.p3, Vds))
               => Sgn(Ids) = Sgn(Vds) /\ Ids # 0
            /\ (self.n0 = 0 /\ call.Vgs = self.Vdirac) => f.n = 0 /\ Ids = 0

\* C9's case: a negative Vds on a device whose current does not underflow
C9_Witness ==
    /\ call.op = "drain_current"
    /\ call.Vds < 0
    /\ carrier_density(self, call.Vgs) > 0
    /\ ret[2] < 0

\* C10 as stated: carrier_density(Vdirac + d) = carrier_density(Vdirac - d)
\* for every offset d, and carrier_density(Vdirac) = n0.
C10_Original ==
    (call.op = "carrier_density") =>
        /\ \A d \in Offsets :
              call.Vgs = FAdd(self.Vdirac, d)
              => ret[2] = carrier_density(self, FSub(self.Vdirac, d))
        /\ call.Vgs = self.Vdirac => ret[2] = self.n0

\* the square of x neither underflows nor loses bits to gradual underflow
SquareIsNormal(x) == x = 0 \/ x * x >= 2 ^ (Prec - 1) * One

\* C10 amended: carrier_density(Vdirac) = n0 when n0 squared does not
\* underflow; two gate voltages whose computed differences from Vdirac are
\* opposite have the same carrier density; so carrier_density(Vdirac + d)
\* = carrier_density(Vdirac - d) whenever the sums Vdirac + d and Vdirac - d
\* are exact, as they are for Vdirac = 0.
C10_SymmetryOfCarrierDensity ==
    (call.op = "carrier_density") =>
        LET Vd == self.Vdirac
        IN  /\ (call.Vgs = Vd /\ SquareIsNormal(self.n0)) => ret[2] = self.n0
            /\ \A W \in PhysVolts :
                  FSub(W, Vd) = -FSub(call.Vgs, Vd) => carrier_density(self, W) = ret[2]
            /\ \A d \in Offsets :
                  (/\ call.Vgs = FAdd(Vd, d)
                   /\ FAdd(Vd, d) = Vd + d /\ FSub(Vd, d) = Vd - d)
                  => ret[2] = carrier_density(self, FSub(Vd, d))
            /\ \A d \in Offsets :
                  (call.Vgs = FAdd(Vd, d) /\ Vd = 0)
                  => ret[2] = carrier_density(self, FSub(Vd, d))

\* C10's case: a non-zero Dirac voltage, an offset whose two sums are exact,
\* and a carrier density above n0
C10_Witness ==
    /\ call.op = "carrier_density"
    /\ self.Vdirac # 0
    /\ \E d \in Offsets :
          /\ call.Vgs = FAdd(self.Vdirac, d)
          /\ FAdd(self.Vdirac, d) = self.Vdirac + d
          /\ FSub(self.Vdirac, d) = self.Vdirac - d
          /\ ret[2] = carrier_density(self, FSub(self.Vdirac, d))
    /\ ret[2] > self.n0

====
